---- MODULE Spec2Model ----
(***************************************************************************)
(* The power-state controllers of mpris-monitor.                           *)
(*                                                                         *)
(*   variant "async" : SystemController of mpris_monitor_kasa.py, asyncio  *)
(*   variant "kasa"  : SystemController of mpris-monitor-kasa.py, asyncio  *)
(*   variant "ir"    : SystemController of mpris-monitor-ir.py, threads    *)
(*                                                                         *)
(* An asyncio task runs without interruption from one await that suspends  *)
(* to the next one; the awaits that suspend are the external activate()    *)
(* and deactivate() coroutines and the timer's asyncio.sleep().  The event *)
(* loop starts tasks in the order they were scheduled, so an update is     *)
(* modelled from the moment its task starts: the order of the update       *)
(* actions is the delivery order.                                          *)
(***************************************************************************)
EXTENDS Integers, Sequences, FiniteSets

\* Bounds of the model.
NumPlayers == 2
MaxEvents == 4

Players == 1..NumPlayers

\* class PlayerState
PlayerState == {"Playing", "Paused", "Stopped"}

\* What the D-Bus signal can carry in PlaybackStatus: the three values above
\* and any other string.
Status == PlayerState \cup {"Other"}

\* class SystemController.State
State == {"ACTIVE", "PAUSED", "IDLE"}

VARIABLES
  variant,          \* which script's controller runs
  argv,             \* the values of the two timeout options on the command
                    \* line, as strings of characters; <<>> for an option
                    \* that is not given
  state,            \* SystemController._state
  active_players,   \* SystemController._active_players
  timer,            \* SystemController._timer: index into timers, 0 is None
  timers,           \* every timer object created so far, in creation order
  activating,       \* update tasks suspended inside `await self.activate()`
  upc,              \* "ir": position of the D-Bus thread inside update()
  nEvents,          \* history: updates delivered
  nActivate,        \* history: calls of the external activate()
  nDeactivate,      \* history: calls of the external deactivate()
  deactSinceUpdate, \* history ("async", "kasa"): calls of deactivate() since
                    \* the last update
  playMark,         \* history: Len(timers) when the last Playing update
                    \* finished being processed, 0 before the first one
  playDone,         \* history: some Playing update has been processed
  last_update,      \* history: the last update delivered, <<player, status>>
  last_status,      \* history ("async", "kasa"): the last status delivered
                    \* for each player
  playing,          \* history: the players whose last delivered status is
                    \* Playing
  via,              \* history: the method the last update came in through,
                    \* "update" or "remove_player"
  nFailed,          \* history: calls of the external activate() and
                    \* deactivate() that raised
  interrupted,      \* history ("async"): cancel() has cut a running
                    \* deactivate() short and no activate() has returned
                    \* since
  raised,           \* history: the exception that ended the handling of the
                    \* last update, "none" when it ran to its end
  held,             \* "async": the button thread inside button_held, and
                    \* the removals it has scheduled on the event loop
  ref               \* history ("async"): the controller that processes the
                    \* same updates one at a time, to completion

vars == <<variant, argv, state, active_players, timer, timers, activating, upc,
          nEvents, nActivate, nDeactivate, deactSinceUpdate, playMark,
          playDone, last_update, last_status, playing, via, nFailed, held,
          interrupted, raised, ref>>

----------------------------------------------------------------------------
\* The timeouts.  argparse, the defaults of --pause_timeout and --stop_timeout.
pause_timeout == 60
stop_timeout == 5

\* The value of a decimal digit.
digit(c) == CHOOSE d \in 0..9 : <<"0", "1", "2", "3", "4", "5", "6", "7", "8", "9">>[d + 1] = c

\* int(s) for a string of decimal digits with an optional sign before them.
RECURSIVE int_digits(_)
int_digits(s) ==
  IF s = <<>> THEN 0
  ELSE 10 * int_digits(SubSeq(s, 1, Len(s) - 1)) + digit(s[Len(s)])

\* Mutant: a negative value is replaced by 0.
int_clamped(s) == IF Head(s) = "-" THEN 0 ELSE int_digits(s)

\* `type=int`: argparse converts the option's string with int().
int(s) == IF Head(s) = "-" THEN 0 - int_digits(Tail(s)) ELSE int_digits(s)

\* parser.parse_args(): an option that is given is converted, one that is not
\* takes its default.
parse_args(av) ==
  [pause_timeout |-> IF av.pause_timeout = <<>> THEN pause_timeout
                     ELSE int(av.pause_timeout),
   stop_timeout |-> IF av.stop_timeout = <<>> THEN stop_timeout
                    ELSE int(av.stop_timeout)]

\* `args = parser.parse_args()`
args == parse_args(argv)

\* main: SystemController(args.stop_timeout, args.pause_timeout), the same
\* call in the three scripts.
main_args == <<args.stop_timeout, args.pause_timeout>>

\* SystemController.__init__: the attribute each positional parameter is
\* stored in: (short_timeout, long_timeout) in mpris_monitor_kasa.py and
\* mpris-monitor-kasa.py, (long, short) in mpris-monitor-ir.py.
init_params(v) == IF v = "ir" THEN <<"long", "short">> ELSE <<"short", "long">>

\* self.long_timeout and self.short_timeout of the controller that main made.
Timeout(v, kind) ==
  main_args[CHOOSE i \in 1..2 : init_params(v)[i] = kind]

\* Timers.  A timer object is [kind, timeout, task]: kind names the attribute
\* it was created with (self._long_timeout or self._short_timeout), timeout
\* is the delay that attribute holds, task is where its task (or thread) is:
\*   "sleeping"  started, the delay has not elapsed
\*   "callback"  the delay elapsed, suspended inside the external deactivate()
\*   "done"      the callback returned
\*   "cancelled" cancelled before the delay elapsed: the callback never starts
\*   "aborted"   cancelled inside the callback: deactivate() was interrupted
\*   "failed"    deactivate() raised: the exception ended the callback

\* AsyncTimer.__init__ and AsyncTimer.start: a new task that sleeps first.
AsyncTimer_start(ts, kind) ==
  Append(ts, [kind |-> kind, timeout |-> Timeout(variant, kind),
              task |-> "sleeping"])

\* AsyncTimer.cancel is Task.cancel: a task that has finished is left alone,
\* any other task gets CancelledError at the await it is suspended in.
AsyncTimer_cancel(ts, t) ==
  IF ts[t].task = "sleeping" THEN [ts EXCEPT ![t].task = "cancelled"]
  ELSE IF ts[t].task = "callback" THEN [ts EXCEPT ![t].task = "aborted"]
  ELSE ts

Armed(ts) == {t \in DOMAIN ts : ts[t].task = "sleeping"}
InCallback(ts) == {t \in DOMAIN ts : ts[t].task = "callback"}

----------------------------------------------------------------------------
\* The controller that handles one update at a time, to completion (no timer
\* fires): the reference the asyncio controller is compared with.

RefInit == [state |-> "IDLE", active |-> {}, timer |-> "none", nActivate |-> 0]

RefUpdate(r, p, s) ==
  IF s = "Playing" THEN
    [state |-> "ACTIVE", active |-> r.active \cup {p}, timer |-> "none",
     nActivate |-> IF r.state = "IDLE" THEN r.nActivate + 1 ELSE r.nActivate]
  ELSE LET ap == r.active \ {p} IN
    IF ap # {} \/ r.state = "IDLE" THEN [r EXCEPT !.active = ap]
    ELSE IF s = "Paused" THEN
      [r EXCEPT !.active = ap, !.timer = "long", !.state = "PAUSED"]
    ELSE IF r.state # "PAUSED" /\ r.timer # "none" THEN [r EXCEPT !.active = ap]
    ELSE [r EXCEPT !.active = ap, !.timer = "short"]

----------------------------------------------------------------------------
\* History kept by every update.
Delivered(p, s) ==
  /\ nEvents < MaxEvents
  /\ nEvents' = nEvents + 1
  /\ last_update' = <<p, s>>
  /\ last_status' = IF variant = "ir" THEN last_status
                    ELSE [last_status EXCEPT ![p] = s]
  /\ playing' = IF s = "Playing" THEN playing \cup {p} ELSE playing \ {p}
  /\ deactSinceUpdate' = 0
  /\ ref' = IF variant = "async" /\ s \in PlayerState
            THEN RefUpdate(ref, p, s) ELSE ref
  /\ UNCHANGED nFailed

\* Mutant: the early return for "not the last player" is missing.
StillActive_never(ap) == FALSE

\* `if len(self._active_players): return`
StillActive(ap) == ap # {}

\* Mutant: a resume from pause activates again.
NeedsActivate_unlessActive(st) == st # "ACTIVE"

\* `if self._state == SystemController.State.IDLE: await self._activate()`
NeedsActivate(st) == st = "IDLE"

\* `assert (cond)`: what the statement raises.
Asserts(cond) == IF cond THEN "none" ELSE "AssertionError"

\* The timers after `if self._timer: self._timer.cancel()`.
CancelTimer(ts, t) == IF t # 0 THEN AsyncTimer_cancel(ts, t) ELSE ts

\* History ("async"): `self._timer.cancel()` hits a timer whose task is
\* suspended inside the external deactivate().
Cuts(ts, t) == variant = "async" /\ t # 0 /\ ts[t].task = "callback"

----------------------------------------------------------------------------
\* mpris_monitor_kasa.py, SystemController.  mpris-monitor-kasa.py has the
\* same code but for the PAUSED branch and for how update() makes the task,
\* so the handlers below are written once and used by both variants.

\* Mutant: the timer is forgotten without being cancelled.
PlayingTail_noCancel ==
  /\ state' = "ACTIVE"
  /\ timers' = timers
  /\ timer' = 0
  /\ playMark' = Len(timers)
  /\ playDone' = TRUE

\* _update_state, PLAYING branch after the activation: the state is ACTIVE,
\* the timer is cancelled and forgotten.
PlayingTail ==
  /\ state' = "ACTIVE"
  /\ timers' = CancelTimer(timers, timer)
  /\ timer' = 0
  /\ playMark' = Len(timers)
  /\ playDone' = TRUE

\* _update_state(sender, PLAYING): the task runs up to `await self.activate()`
\* when the state is IDLE, and to the end of _update_state otherwise.
Playing(p) ==
  /\ Delivered(p, "Playing")
  /\ active_players' = active_players \cup {p}
  /\ IF NeedsActivate(state)
     THEN /\ activating' = activating + 1
          /\ nActivate' = nActivate + 1
          /\ UNCHANGED <<state, timer, timers, playMark, playDone,
                         interrupted>>
     ELSE /\ PlayingTail
          /\ interrupted' = (interrupted \/ Cuts(timers, timer))
          /\ UNCHANGED <<activating, nActivate>>
  /\ raised' = "none"
  /\ UNCHANGED <<variant, argv, upc, nDeactivate>>

\* The external activate() returns into _activate, which returns into
\* _update_state.
Activated ==
  /\ activating > 0
  /\ activating' = activating - 1
  /\ PlayingTail
  /\ interrupted' = Cuts(timers, timer)
  /\ UNCHANGED <<variant, argv, active_players, upc, nEvents, nActivate,
                 nDeactivate, deactSinceUpdate, last_update, last_status,
                 playing, via, nFailed, held, raised, ref>>

\* Mutant: the test for IDLE comes before the discard.
Paused_idleFirst(p) ==
  /\ Delivered(p, "Paused")
  /\ IF state = "IDLE"
     THEN UNCHANGED <<active_players, state, timer, timers>>
     ELSE /\ active_players' = active_players \ {p}
          /\ IF StillActive(active_players')
             THEN UNCHANGED <<state, timer, timers>>
             ELSE /\ timers' = AsyncTimer_start(timers, "long")
                  /\ timer' = Len(timers')
                  /\ state' = "PAUSED"
  /\ raised' = "none"
  /\ UNCHANGED <<variant, argv, interrupted, activating, upc, nActivate, nDeactivate, playMark,
                 playDone>>

\* _update_state(sender, PAUSED)
Paused(p) ==
  /\ Delivered(p, "Paused")
  /\ active_players' = active_players \ {p}
  /\ IF StillActive(active_players') \/ state = "IDLE"
     THEN UNCHANGED <<state, timer, timers>>
     ELSE /\ timers' = AsyncTimer_start(timers, "long")
          /\ timer' = Len(timers')
          /\ state' = "PAUSED"
  /\ raised' = "none"
  /\ UNCHANGED <<variant, argv, interrupted, activating, upc, nActivate, nDeactivate, playMark,
                 playDone>>

\* The STOPPED branch once the active set is empty and the state is not IDLE.
\* A failed `assert (self._timer)` ends the task.
StoppedArm ==
  IF state = "PAUSED"
  THEN /\ raised' = Asserts(timer # 0)
       /\ IF timer = 0
          THEN UNCHANGED <<timer, timers>>
          ELSE /\ timers' = AsyncTimer_start(AsyncTimer_cancel(timers, timer),
                                             "short")
               /\ timer' = Len(timers')
  ELSE /\ raised' = "none"
       /\ IF timer # 0
          THEN UNCHANGED <<timer, timers>>
          ELSE /\ timers' = AsyncTimer_start(timers, "short")
               /\ timer' = Len(timers')

\* _update_state(sender, STOPPED)
Stopped(p) ==
  /\ Delivered(p, "Stopped")
  /\ active_players' = active_players \ {p}
  /\ IF StillActive(active_players') \/ state = "IDLE"
     THEN raised' = "none" /\ UNCHANGED <<timer, timers, interrupted>>
     ELSE /\ StoppedArm
          /\ interrupted' =
               (interrupted \/ (state = "PAUSED" /\ Cuts(timers, timer)))
  /\ UNCHANGED <<variant, argv, state, activating, upc, nActivate, nDeactivate,
                 playMark, playDone>>

\* AsyncTimer._run: the sleep is over, _deactivate starts and suspends inside
\* the external deactivate().
Fires(t) ==
  /\ t \in Armed(timers)
  /\ timers' = [timers EXCEPT ![t].task = "callback"]
  /\ nDeactivate' = nDeactivate + 1
  /\ deactSinceUpdate' = deactSinceUpdate + 1
  /\ UNCHANGED <<variant, argv, state, active_players, timer, activating, upc, nEvents,
                 nActivate, playMark, playDone, last_update, last_status,
                 playing, via, nFailed, held, interrupted, raised, ref>>

\* The timers after the end of _deactivate run by timer t: the timer the
\* controller holds is cancelled (cancelling the running task itself does not
\* interrupt it), and t's task ends.
DeactivateCancel(ts, cur, t) ==
  [(IF cur # t THEN CancelTimer(ts, cur) ELSE ts) EXCEPT ![t].task = "done"]

\* The external deactivate() returns into _deactivate.
Deactivated(t) ==
  /\ t \in InCallback(timers)
  /\ state' = "IDLE"
  /\ timers' = DeactivateCancel(timers, timer, t)
  /\ timer' = 0
  /\ interrupted' = (interrupted \/ (timer # t /\ Cuts(timers, timer)))
  /\ UNCHANGED <<variant, argv, active_players, activating, upc, nEvents, nActivate,
                 nDeactivate, deactSinceUpdate, playMark, playDone, last_update,
                 last_status, playing, via, nFailed, held, raised, ref>>

\* Mutant: a status that is not Playing counts as "not playing" and the
\* sender is discarded.
Ignored_discards(p, s) ==
  /\ Delivered(p, s)
  /\ raised' = "none"
  /\ active_players' = active_players \ {p}
  /\ UNCHANGED <<variant, argv, interrupted, state, timer, timers, activating, upc, nActivate,
                 nDeactivate, playMark, playDone>>

\* A status that matches none of the three branches: the if/elif chain falls
\* through and the handler returns.
Ignored(p, s) ==
  /\ Delivered(p, s)
  /\ raised' = "none"
  /\ UNCHANGED <<variant, argv, interrupted, state, active_players, timer, timers, activating, upc,
                 nActivate, nDeactivate, playMark, playDone>>

\* _update_async(sender, state): _update_state, then the on_state callback,
\* which reads the active set and drives the LED and the preamp plug; it
\* changes nothing of the controller.
update_async(p, s) ==
  CASE s = "Playing" -> Playing(p)
    [] s = "Paused" -> Paused(p)
    [] s = "Stopped" -> Stopped(p)
    [] OTHER -> Ignored(p, s)

\* update(sender, state): run_coroutine_threadsafe(_update_async(...))
update(p, s) ==
  /\ variant = "async"
  /\ via' = "update"
  /\ UNCHANGED held
  /\ update_async(p, s)

\* button_held has not run: no iterator, nothing scheduled.
NotHeld ==
  [pc |-> "idle", used |-> 0, begun |-> {}, yielded |-> {}, sent |-> {},
   queue |-> <<>>]

\* The event loop starts the task of a removal: when the player is the one
\* button_held scheduled first, it is that removal (a removal that came from
\* the D-Bus monitor for the same player is the same call).
Started(h, p) ==
  IF h.queue # <<>> /\ Head(h.queue) = p
  THEN [h EXCEPT !.queue = Tail(@), !.sent = @ \cup {p}]
  ELSE h

\* Mutant: a removal is handled like a pause.
remove_player_asPaused(p) ==
  /\ variant = "async"
  /\ via' = "remove_player"
  /\ held' = Started(held, p)
  /\ update_async(p, "Paused")

\* remove_player(sender): `self.update(sender, PlayerState.STOPPED)`
remove_player(p) ==
  /\ variant = "async"
  /\ via' = "remove_player"
  /\ held' = Started(held, p)
  /\ update_async(p, "Stopped")

ActivateDone == variant = "async" /\ Activated

TimerFires(t) == variant = "async" /\ Fires(t)

DeactivateDone(t) == variant = "async" /\ Deactivated(t)

NextAsync ==
  \/ \E p \in Players, s \in PlayerState : update(p, s)
  \/ \E p \in Players : remove_player(p)
  \/ ActivateDone
  \/ \E t \in DOMAIN timers : TimerFires(t)
  \/ \E t \in DOMAIN timers : DeactivateDone(t)

----------------------------------------------------------------------------
\* mpris-monitor-kasa.py, SystemController.

\* _update(sender, "Paused"): no test for IDLE, and
\* `assert(self.timer == None)`, whose failure ends the task.
kasa_Paused(p) ==
  /\ Delivered(p, "Paused")
  /\ active_players' = active_players \ {p}
  /\ raised' = IF StillActive(active_players') THEN "none"
               ELSE Asserts(timer = 0)
  /\ IF StillActive(active_players') \/ timer # 0
     THEN UNCHANGED <<state, timer, timers>>
     ELSE /\ timers' = AsyncTimer_start(timers, "long")
          /\ timer' = Len(timers')
          /\ state' = "PAUSED"
  /\ UNCHANGED <<variant, argv, interrupted, activating, upc, nActivate, nDeactivate, playMark,
                 playDone>>

\* _update(sender, state)
kasa_update_task(p, s) ==
  CASE s = "Playing" -> Playing(p)
    [] s = "Paused" -> kasa_Paused(p)
    [] s = "Stopped" -> Stopped(p)
    [] OTHER -> Ignored(p, s)

\* update(sender, state): asyncio.create_task(self._update(sender, state))
kasa_update(p, s) ==
  /\ variant = "kasa"
  /\ via' = "update"
  /\ UNCHANGED held
  /\ kasa_update_task(p, s)

\* remove_player(sender): asyncio.create_task(self._update(sender, "Stopped"))
kasa_remove_player(p) ==
  /\ variant = "kasa"
  /\ via' = "remove_player"
  /\ UNCHANGED held
  /\ kasa_update_task(p, "Stopped")

kasa_ActivateDone == variant = "kasa" /\ Activated

kasa_TimerFires(t) == variant = "kasa" /\ Fires(t)

kasa_DeactivateDone(t) == variant = "kasa" /\ Deactivated(t)

NextKasa ==
  \/ \E p \in Players, s \in PlayerState : kasa_update(p, s)
  \/ \E p \in Players : kasa_remove_player(p)
  \/ kasa_ActivateDone
  \/ \E t \in DOMAIN timers : kasa_TimerFires(t)
  \/ \E t \in DOMAIN timers : kasa_DeactivateDone(t)

----------------------------------------------------------------------------
\* mpris-monitor-ir.py, SystemController.  update() runs on the D-Bus thread,
\* one update at a time; _deactivate runs on the thread of the timer that
\* fired.  There is no lock: the threads interleave between statements, so
\* every statement that reads or writes self.state or self.timer is a step.
\*
\* A threading.Timer passes through these further places:
\*   "created"  constructed, start() not called yet
\*   "callback" inside the external deactivate() (line 193)
\*   "check"    about to run `if self.timer:` (line 198)
\*   "cancel"   about to run `self.timer.cancel()` (line 199)
\*   "clear"    about to run `self.timer = None` (line 200)
\*   "done"     the thread has ended (returned, or died on an exception)

\* threading.Timer(...): a timer object whose thread is not started.
ThreadTimer_new(ts, kind) ==
  Append(ts, [kind |-> kind, timeout |-> Timeout(variant, kind),
              task |-> "created"])

\* Timer.start(): the thread starts waiting, unless cancel() came first.
ThreadTimer_start(ts, t) ==
  IF ts[t].task = "created" THEN [ts EXCEPT ![t].task = "sleeping"] ELSE ts

\* Timer.cancel() sets the finished event: a thread that is still waiting
\* (or not started) never calls the function, a thread that has been
\* dispatched is not affected.
ThreadTimer_cancel(ts, t) ==
  IF ts[t].task \in {"created", "sleeping"}
  THEN [ts EXCEPT ![t].task = "cancelled"] ELSE ts

\* A method call on self.timer: what it raises when self.timer is None.
NoneType(t) == IF t = 0 THEN "AttributeError" ELSE "none"

\* Timer.is_alive()
ThreadTimer_is_alive(ts, t) ==
  ts[t].task \notin {"created", "cancelled", "done", "failed"}

ir_delivery == <<nEvents, deactSinceUpdate, last_update, last_status, playing,
                 via, nFailed, held, interrupted, ref>>

ir_hist == <<ir_delivery, raised>>

\* update(sender, "Playing"), lines 116-123: the sender is added and
\* self.state is read; _activate() calls the external activate().
ir_update_Playing(p) ==
  /\ variant = "ir" /\ upc = "idle"
  /\ Delivered(p, "Playing")
  /\ active_players' = active_players \cup {p}
  /\ IF NeedsActivate(state)
     THEN upc' = "activate" /\ nActivate' = nActivate + 1
     ELSE upc' = "set_active" /\ UNCHANGED nActivate
  /\ raised' = "none"
  /\ UNCHANGED <<variant, argv, interrupted, state, timer, timers, activating, nDeactivate,
                 playMark, playDone>>

\* The external activate() returns; line 187: self.state = ACTIVE.
ir_activate_returns ==
  /\ variant = "ir" /\ upc = "activate"
  /\ state' = "ACTIVE"
  /\ upc' = "set_active"
  /\ UNCHANGED <<variant, argv, active_players, timer, timers, activating, nActivate,
                 nDeactivate, playMark, playDone>>
  /\ UNCHANGED ir_hist

\* line 126: self.state = ACTIVE
ir_set_active ==
  /\ variant = "ir" /\ upc = "set_active"
  /\ state' = "ACTIVE"
  /\ upc' = "is_alive"
  /\ UNCHANGED <<variant, argv, active_players, timer, timers, activating, nActivate,
                 nDeactivate, playMark, playDone>>
  /\ UNCHANGED ir_hist

\* line 129: if self.timer and self.timer.is_alive()
ir_is_alive ==
  /\ variant = "ir" /\ upc = "is_alive"
  /\ upc' = IF timer # 0 /\ ThreadTimer_is_alive(timers, timer)
            THEN "play_cancel" ELSE "play_clear"
  /\ UNCHANGED <<variant, argv, state, active_players, timer, timers, activating,
                 nActivate, nDeactivate, playMark, playDone>>
  /\ UNCHANGED ir_hist

\* line 131: self.timer.cancel(); AttributeError ends the update when a timer
\* thread has set self.timer to None in between.
ir_play_cancel ==
  /\ variant = "ir" /\ upc = "play_cancel"
  /\ IF timer = 0
     THEN upc' = "idle" /\ UNCHANGED timers
     ELSE upc' = "play_clear" /\ timers' = ThreadTimer_cancel(timers, timer)
  /\ raised' = NoneType(timer)
  /\ UNCHANGED <<variant, argv, state, active_players, timer, activating, nActivate,
                 nDeactivate, playMark, playDone>>
  /\ UNCHANGED ir_delivery

\* line 134: self.timer = None; the Playing update has been processed.
ir_play_clear ==
  /\ variant = "ir" /\ upc = "play_clear"
  /\ timer' = 0
  /\ upc' = "idle"
  /\ playMark' = Len(timers)
  /\ playDone' = TRUE
  /\ UNCHANGED <<variant, argv, state, active_players, timers, activating, nActivate,
                 nDeactivate>>
  /\ UNCHANGED ir_hist

\* update(sender, "Paused"), lines 136-146: the sender is discarded; with no
\* player left, `assert(self.timer == None)`, whose failure ends the update.
ir_update_Paused(p) ==
  /\ variant = "ir" /\ upc = "idle"
  /\ Delivered(p, "Paused")
  /\ active_players' = active_players \ {p}
  /\ upc' = IF StillActive(active_players') \/ timer # 0
            THEN "idle" ELSE "arm_long"
  /\ raised' = IF StillActive(active_players') THEN "none"
               ELSE Asserts(timer = 0)
  /\ UNCHANGED <<variant, argv, interrupted, state, timer, timers, activating, nActivate,
                 nDeactivate, playMark, playDone>>

\* line 150: self.timer = threading.Timer(self.long_timeout, ...)
\* line 178: self.timer = threading.Timer(self.short_timeout, ...)
ir_arm ==
  /\ variant = "ir" /\ upc \in {"arm_long", "arm_short"}
  /\ timers' = ThreadTimer_new(timers, IF upc = "arm_long" THEN "long" ELSE "short")
  /\ timer' = Len(timers')
  /\ upc' = IF upc = "arm_long" THEN "start_long" ELSE "start_short"
  /\ UNCHANGED <<variant, argv, state, active_players, activating, nActivate,
                 nDeactivate, playMark, playDone>>
  /\ UNCHANGED ir_hist

\* lines 151 and 179: self.timer.start(); AttributeError ends the update when
\* a timer thread has set self.timer to None in between.
ir_start ==
  /\ variant = "ir" /\ upc \in {"start_long", "start_short"}
  /\ IF timer = 0
     THEN upc' = "idle" /\ UNCHANGED timers
     ELSE /\ timers' = ThreadTimer_start(timers, timer)
          /\ upc' = IF upc = "start_long" THEN "set_paused" ELSE "idle"
  /\ raised' = NoneType(timer)
  /\ UNCHANGED <<variant, argv, state, active_players, timer, activating, nActivate,
                 nDeactivate, playMark, playDone>>
  /\ UNCHANGED ir_delivery

\* line 152: self.state = PAUSED
ir_set_paused ==
  /\ variant = "ir" /\ upc = "set_paused"
  /\ state' = "PAUSED"
  /\ upc' = "idle"
  /\ UNCHANGED <<variant, argv, active_players, timer, timers, activating, nActivate,
                 nDeactivate, playMark, playDone>>
  /\ UNCHANGED ir_hist

\* update(sender, "Stopped"), lines 154-165: the sender is discarded; with no
\* player left, self.state is compared with IDLE.
ir_update_Stopped(p) ==
  /\ variant = "ir" /\ upc = "idle"
  /\ Delivered(p, "Stopped")
  /\ active_players' = active_players \ {p}
  /\ upc' = IF StillActive(active_players') \/ state = "IDLE"
            THEN "idle" ELSE "stop_paused"
  /\ raised' = "none"
  /\ UNCHANGED <<variant, argv, interrupted, state, timer, timers, activating, nActivate,
                 nDeactivate, playMark, playDone>>

\* update(sender, state) with a status that matches no branch: lines 113-114,
\* then the if/elif chain falls through and update returns.
ir_update_Other(p, s) ==
  /\ variant = "ir" /\ upc = "idle"
  /\ Ignored(p, s)

\* update(sender, state), lines 113-179: its first step.
ir_update(p, s) ==
  /\ via' = "update"
  /\ UNCHANGED held
  /\ CASE s = "Playing" -> ir_update_Playing(p)
       [] s = "Paused" -> ir_update_Paused(p)
       [] s = "Stopped" -> ir_update_Stopped(p)
       [] OTHER -> ir_update_Other(p, s)

\* remove_player(sender): self.update(sender, "Stopped")
ir_remove_player(p) ==
  /\ via' = "remove_player"
  /\ UNCHANGED held
  /\ ir_update_Stopped(p)

\* line 167: if self.state == PAUSED ... line 171: elif self.timer
ir_stop_paused ==
  /\ variant = "ir" /\ upc = "stop_paused"
  /\ upc' = IF state = "PAUSED" THEN "stop_assert"
            ELSE IF timer # 0 THEN "stop_alive" ELSE "arm_short"
  /\ UNCHANGED <<variant, argv, state, active_players, timer, timers, activating,
                 nActivate, nDeactivate, playMark, playDone>>
  /\ UNCHANGED ir_hist

\* lines 173-174: assert(self.timer.is_alive()), then the update returns;
\* AttributeError when a timer thread has set self.timer to None in between.
ir_stop_alive ==
  /\ variant = "ir" /\ upc = "stop_alive"
  /\ upc' = "idle"
  /\ raised' = IF timer = 0 THEN "AttributeError"
               ELSE Asserts(ThreadTimer_is_alive(timers, timer))
  /\ UNCHANGED <<variant, argv, state, active_players, timer, timers, activating,
                 nActivate, nDeactivate, playMark, playDone>>
  /\ UNCHANGED ir_delivery

\* line 169: assert(self.timer), whose failure ends the update.
ir_stop_assert ==
  /\ variant = "ir" /\ upc = "stop_assert"
  /\ upc' = IF timer = 0 THEN "idle" ELSE "stop_cancel"
  /\ raised' = Asserts(timer # 0)
  /\ UNCHANGED <<variant, argv, state, active_players, timer, timers, activating,
                 nActivate, nDeactivate, playMark, playDone>>
  /\ UNCHANGED ir_delivery

\* line 170: self.timer.cancel()
ir_stop_cancel ==
  /\ variant = "ir" /\ upc = "stop_cancel"
  /\ IF timer = 0
     THEN upc' = "idle" /\ UNCHANGED timers
     ELSE upc' = "arm_short" /\ timers' = ThreadTimer_cancel(timers, timer)
  /\ raised' = NoneType(timer)
  /\ UNCHANGED <<variant, argv, state, active_players, timer, activating, nActivate,
                 nDeactivate, playMark, playDone>>
  /\ UNCHANGED ir_delivery

ir_ctl == <<variant, argv, active_players, activating, upc, nEvents, nActivate,
            playMark, playDone, last_update, last_status, playing, via, nFailed, held, interrupted,
            raised, ref>>

\* Timer.run: the interval elapsed with the finished event not set;
\* _deactivate calls the external deactivate() (lines 189-193).
ir_TimerFires(t) ==
  /\ variant = "ir"
  /\ t \in Armed(timers)
  /\ timers' = [timers EXCEPT ![t].task = "callback"]
  /\ nDeactivate' = nDeactivate + 1
  /\ UNCHANGED <<variant, argv, state, active_players, timer, activating, upc, nEvents,
                 nActivate, deactSinceUpdate, playMark, playDone, last_update,
                 last_status, playing, via, nFailed, held, interrupted, raised, ref>>

\* The external deactivate() returns; line 195: self.state = IDLE.
ir_deactivate_returns(t) ==
  /\ variant = "ir"
  /\ t \in InCallback(timers)
  /\ state' = "IDLE"
  /\ timers' = [timers EXCEPT ![t].task = "check"]
  /\ UNCHANGED <<timer, nDeactivate, deactSinceUpdate>>
  /\ UNCHANGED ir_ctl

\* line 198: if self.timer
ir_timer_check(t) ==
  /\ variant = "ir"
  /\ t \in DOMAIN timers /\ timers[t].task = "check"
  /\ timers' = [timers EXCEPT ![t].task = IF timer # 0 THEN "cancel" ELSE "done"]
  /\ UNCHANGED <<state, timer, nDeactivate, deactSinceUpdate>>
  /\ UNCHANGED ir_ctl

\* line 199: self.timer.cancel(); AttributeError ends the thread when the
\* update has set self.timer to None in between.
ir_timer_cancel(t) ==
  /\ variant = "ir"
  /\ t \in DOMAIN timers /\ timers[t].task = "cancel"
  /\ timers' = IF timer = 0
               THEN [timers EXCEPT ![t].task = "done"]
               ELSE [ThreadTimer_cancel(timers, timer) EXCEPT ![t].task = "clear"]
  /\ UNCHANGED <<state, timer, nDeactivate, deactSinceUpdate>>
  /\ UNCHANGED ir_ctl

\* line 200: self.timer = None
ir_timer_clear(t) ==
  /\ variant = "ir"
  /\ t \in DOMAIN timers /\ timers[t].task = "clear"
  /\ timer' = 0
  /\ timers' = [timers EXCEPT ![t].task = "done"]
  /\ UNCHANGED <<state, nDeactivate, deactSinceUpdate>>
  /\ UNCHANGED ir_ctl

NextIr ==
  \/ \E p \in Players, s \in PlayerState : ir_update(p, s)
  \/ \E p \in Players : ir_remove_player(p)
  \/ ir_activate_returns
  \/ ir_set_active
  \/ ir_is_alive
  \/ ir_play_cancel
  \/ ir_play_clear
  \/ ir_arm
  \/ ir_start
  \/ ir_set_paused
  \/ ir_stop_paused
  \/ ir_stop_alive
  \/ ir_stop_assert
  \/ ir_stop_cancel
  \/ \E t \in DOMAIN timers : ir_TimerFires(t)
  \/ \E t \in DOMAIN timers : ir_deactivate_returns(t)
  \/ \E t \in DOMAIN timers : ir_timer_check(t)
  \/ \E t \in DOMAIN timers : ir_timer_cancel(t)
  \/ \E t \in DOMAIN timers : ir_timer_clear(t)

----------------------------------------------------------------------------
\* The command line without --pause_timeout and --stop_timeout.
NoTimeoutOptions == [pause_timeout |-> <<>>, stop_timeout |-> <<>>]

\* SystemController.__init__
InitController ==
  /\ state = "IDLE"
  /\ active_players = {}
  /\ timer = 0
  /\ timers = <<>>
  /\ activating = 0
  /\ upc = "idle"
  /\ nEvents = 0
  /\ nActivate = 0
  /\ nDeactivate = 0
  /\ deactSinceUpdate = 0
  /\ playMark = 0
  /\ playDone = FALSE
  /\ last_update = <<0, "None">>
  /\ last_status = [p \in Players |-> "None"]
  /\ playing = {}
  /\ via = "none"
  /\ nFailed = 0
  /\ held = NotHeld
  /\ interrupted = FALSE
  /\ raised = "none"
  /\ ref = RefInit

InitCommon == argv = NoTimeoutOptions /\ InitController

Init == variant = "async" /\ InitCommon

Next == NextAsync

\* mpris_monitor_kasa.py
Spec == Init /\ [][Next]_vars

\* mpris-monitor-kasa.py
InitKasa == variant = "kasa" /\ InitCommon

SpecKasa == InitKasa /\ [][NextKasa]_vars

\* mpris-monitor-ir.py
InitIr == variant = "ir" /\ InitCommon

SpecIr == InitIr /\ [][NextIr]_vars

\* Every script
InitAll == variant \in {"async", "kasa", "ir"} /\ InitCommon

NextAll == NextAsync \/ NextKasa \/ NextIr

SpecAll == InitAll /\ [][NextAll]_vars

\* Every script, with PlaybackStatus values that are none of the three as well
Malformed ==
  \E p \in Players, s \in Status \ PlayerState :
    update(p, s) \/ kasa_update(p, s) \/ ir_update(p, s)

NextAny == NextAll \/ Malformed

SpecAny == InitAll /\ [][NextAny]_vars

----------------------------------------------------------------------------
\* The device calls can fail: power_on, power_off and the IR sender talk to
\* hardware and catch nothing, and neither does the controller.

\* `await self.activate()` raises: the exception leaves _activate before the
\* assignment of ACTIVE and _update_state before the timer is cancelled, and
\* ends the update task; it is kept in the task's future.
ActivateRaised ==
  /\ activating > 0
  /\ activating' = activating - 1
  /\ nFailed' = nFailed + 1
  /\ UNCHANGED <<variant, argv, interrupted, state, active_players, timer, timers, upc, nEvents,
                 nActivate, nDeactivate, deactSinceUpdate, playMark, playDone,
                 last_update, last_status, playing, via, held, raised, ref>>

\* `await self.deactivate()` raises in the callback of timer t: the exception
\* leaves _deactivate before the assignment of IDLE and ends the timer's task.
DeactivateRaised(t) ==
  /\ t \in InCallback(timers)
  /\ timers' = [timers EXCEPT ![t].task = "failed"]
  /\ nFailed' = nFailed + 1
  /\ UNCHANGED <<variant, argv, interrupted, state, active_players, timer, activating, upc, nEvents,
                 nActivate, nDeactivate, deactSinceUpdate, playMark, playDone,
                 last_update, last_status, playing, via, held, raised, ref>>

ActivateFails == variant = "async" /\ ActivateRaised

DeactivateFails(t) == variant = "async" /\ DeactivateRaised(t)

kasa_ActivateFails == variant = "kasa" /\ ActivateRaised

kasa_DeactivateFails(t) == variant = "kasa" /\ DeactivateRaised(t)

\* mpris-monitor-ir.py line 185: self.activate() raises; the exception leaves
\* _activate before line 187 and update() before line 126, to the caller.
ir_activate_raises ==
  /\ variant = "ir" /\ upc = "activate"
  /\ upc' = "idle"
  /\ raised' = "Exception"
  /\ nFailed' = nFailed + 1
  /\ UNCHANGED <<variant, argv, interrupted, state, active_players, timer, timers, activating,
                 nEvents, nActivate, nDeactivate, deactSinceUpdate, playMark,
                 playDone, last_update, last_status, playing, via, held, ref>>

\* mpris-monitor-ir.py line 193: self.deactivate() raises; the exception ends
\* the timer's thread before line 195.
ir_deactivate_raises(t) ==
  /\ variant = "ir"
  /\ DeactivateRaised(t)

NextFail ==
  \/ NextAll
  \/ ActivateFails
  \/ \E t \in DOMAIN timers : DeactivateFails(t)
  \/ kasa_ActivateFails
  \/ \E t \in DOMAIN timers : kasa_DeactivateFails(t)
  \/ ir_activate_raises
  \/ \E t \in DOMAIN timers : ir_deactivate_raises(t)

\* Every script, with device calls that can raise
SpecFail == InitAll /\ [][NextFail]_vars

----------------------------------------------------------------------------
\* The environment that does one thing at a time: an update is delivered only
\* when the update before it has been processed and no timer callback is
\* running, and a timer fires only when no update is being processed.

\* No update is being processed.
Settled == activating = 0 /\ upc = "idle"

\* The timers whose callback has started and not ended.
Running(ts) ==
  {t \in DOMAIN ts : ts[t].task \in {"callback", "check", "cancel", "clear"}}

SerialUpdate ==
  /\ Settled
  /\ Running(timers) = {}
  /\ \/ \E p \in Players, s \in PlayerState :
          update(p, s) \/ kasa_update(p, s) \/ ir_update(p, s)
     \/ \E p \in Players :
          remove_player(p) \/ kasa_remove_player(p) \/ ir_remove_player(p)

SerialFires ==
  /\ Settled
  /\ \E t \in DOMAIN timers :
       TimerFires(t) \/ kasa_TimerFires(t) \/ ir_TimerFires(t)

\* The steps inside an update and inside a callback.
Internal ==
  \/ ActivateDone
  \/ kasa_ActivateDone
  \/ \E t \in DOMAIN timers : DeactivateDone(t)
  \/ \E t \in DOMAIN timers : kasa_DeactivateDone(t)
  \/ ir_activate_returns
  \/ ir_set_active
  \/ ir_is_alive
  \/ ir_play_cancel
  \/ ir_play_clear
  \/ ir_arm
  \/ ir_start
  \/ ir_set_paused
  \/ ir_stop_paused
  \/ ir_stop_alive
  \/ ir_stop_assert
  \/ ir_stop_cancel
  \/ \E t \in DOMAIN timers : ir_deactivate_returns(t)
  \/ \E t \in DOMAIN timers : ir_timer_check(t)
  \/ \E t \in DOMAIN timers : ir_timer_cancel(t)
  \/ \E t \in DOMAIN timers : ir_timer_clear(t)

NextSerial == SerialUpdate \/ SerialFires \/ Internal

\* Every script, one thing at a time
SpecSerial == InitAll /\ [][NextSerial]_vars

----------------------------------------------------------------------------
\* The scripts started with timeout options on the command line.

\* Values for an option: not given, "0", "-5", "12".
OptionValues == {<<>>, <<"0">>, <<"-", "5">>, <<"1", "2">>}

InitArgs ==
  /\ variant \in {"async", "kasa", "ir"}
  /\ argv \in [pause_timeout : OptionValues, stop_timeout : OptionValues]
  /\ InitController

\* Every script, any timeout options, one thing at a time
SpecArgs == InitArgs /\ [][NextSerial]_vars

----------------------------------------------------------------------------
\* One player that plays, pauses, resumes and stops, with each update
\* delivered once the one before it has been processed.
Scenario == <<"Playing", "Paused", "Playing", "Stopped">>

ScenarioUpdate ==
  /\ Settled
  /\ Running(timers) = {}
  /\ nEvents < Len(Scenario)
  /\ \E p \in Players :
       /\ nEvents = 0 \/ last_update[1] = p
       /\ \/ update(p, Scenario[nEvents + 1])
          \/ kasa_update(p, Scenario[nEvents + 1])
          \/ ir_update(p, Scenario[nEvents + 1])

\* The steps inside the updates and the callbacks of the scenario.
ScenarioInternal ==
  \/ ActivateDone
  \/ kasa_ActivateDone
  \/ \E t \in DOMAIN timers : DeactivateDone(t)
  \/ \E t \in DOMAIN timers : kasa_DeactivateDone(t)
  \/ ir_activate_returns
  \/ ir_set_active
  \/ ir_is_alive
  \/ ir_play_cancel
  \/ ir_play_clear
  \/ ir_arm
  \/ ir_start
  \/ ir_set_paused
  \/ ir_stop_paused
  \/ \E t \in DOMAIN timers : ir_deactivate_returns(t)
  \/ \E t \in DOMAIN timers : ir_timer_check(t)
  \/ \E t \in DOMAIN timers : ir_timer_cancel(t)
  \/ \E t \in DOMAIN timers : ir_timer_clear(t)

NextScenario == ScenarioUpdate \/ SerialFires \/ ScenarioInternal

SpecScenario == InitAll /\ [][NextScenario]_vars

----------------------------------------------------------------------------
\* mpris_monitor_kasa.py, main(): the button callbacks run on the button's
\* own thread, the controller's tasks on the event-loop thread.

\* What a step of the button thread leaves alone: it only reads the
\* controller's set and hands coroutines to the loop.
button_ctl ==
  <<variant, argv, state, active_players, timer, timers, activating, upc,
    nEvents, nActivate, nDeactivate, deactSinceUpdate, playMark, playDone,
    last_update, last_status, playing, via, nFailed, interrupted, raised,
    ref>>

\* `for player in controller.active_players:` begins. The property returns
\* the controller's own set, so the iterator is over the set the event loop
\* discards from; it remembers the set's size.
button_held ==
  /\ variant = "async"
  /\ held.pc = "idle"
  /\ held' = [pc |-> "iterating", used |-> Cardinality(active_players),
              begun |-> active_players, yielded |-> {}, sent |-> {},
              queue |-> <<>>]
  /\ UNCHANGED button_ctl

\* One turn of the for statement: the set iterator's next(), which raises
\* RuntimeError when the set's size is not the one it remembers, and, for the
\* player it yields, `controller.remove_player(player)`, which only hands the
\* Stopped update to the event loop (run_coroutine_threadsafe). The order in
\* which a set yields its members is the hash table's: any member not yet
\* yielded can be the next one.
button_next ==
  /\ variant = "async"
  /\ held.pc = "iterating"
  /\ IF Cardinality(active_players) # held.used
     THEN held' = [held EXCEPT !.pc = "RuntimeError"]
     ELSE IF active_players \ held.yielded = {}
     THEN held' = [held EXCEPT !.pc = "done"]
     ELSE \E p \in active_players \ held.yielded :
            held' = [held EXCEPT !.yielded = @ \cup {p},
                                 !.queue = Append(@, p)]
  /\ UNCHANGED button_ctl

\* The event loop starts the removal button_held scheduled first.
button_removal ==
  /\ held.queue # <<>>
  /\ remove_player(Head(held.queue))

\* The event-loop thread and the button thread, in every interleaving.
NextButton ==
  \/ \E p \in Players, s \in PlayerState : update(p, s)
  \/ button_removal
  \/ ActivateDone
  \/ \E t \in DOMAIN timers : TimerFires(t)
  \/ \E t \in DOMAIN timers : DeactivateDone(t)
  \/ button_held
  \/ button_next

SpecButton == Init /\ [][NextButton]_vars

----------------------------------------------------------------------------
\* Predicates the claims share.

\* No task is suspended and no timer can still fire: nothing happens until
\* the next update is delivered.
Quiescent ==
  /\ activating = 0
  /\ upc = "idle"
  /\ \A t \in DOMAIN timers :
       timers[t].task \in {"done", "cancelled", "aborted", "failed"}

\* The step is the delivery of update(p, s).
IsUpdate(p, s) == nEvents' = nEvents + 1 /\ last_update' = <<p, s>>

\* The step is the delivery of remove_player(p).
IsRemove(p) ==
  nEvents' = nEvents + 1 /\ last_update'[1] = p /\ via' = "remove_player"

\* The step creates a timer.
Arms == Len(timers') > Len(timers)

----------------------------------------------------------------------------
\* C1: once a Playing update has been processed, no debounce timer armed
\* before it is still pending (so none can fire and call deactivate()).
C1_NoStaleTimerAfterPlaying ==
  (variant = "async" /\ playDone) =>
     \A t \in 1..playMark : timers[t].task # "sleeping"

\* C2: once the system was activated, every known player is Stopped or
\* removed and nothing is left to run, the controller is Idle and deactivate()
\* has been called at most once since the last update.
C2_EventuallyIdle ==
  (/\ variant = "async"
   /\ nActivate > 0
   /\ \A p \in Players : last_status[p] \in {"None", "Stopped"}
   /\ Quiescent)
  => (state = "IDLE" /\ deactSinceUpdate <= 1)

\* C3: at most one armed (started, not cancelled, not fired) timer exists.
C3_AtMostOneArmedTimer ==
  variant = "async" => Cardinality(Armed(timers)) <= 1

\* C4: a Paused or Stopped update that leaves another player in the active
\* set arms no timer, cancels none and keeps the state; the step that creates
\* a timer belongs to a Paused or Stopped update that emptied the active set.
C4_NoTimerWhileOthersPlay ==
  [][/\ \A p \in Players, s \in {"Paused", "Stopped"} :
          (IsUpdate(p, s) /\ active_players' # {})
          => (timers' = timers /\ timer' = timer /\ state' = state /\ upc' = "idle")
     /\ Arms => (active_players' = {} /\ last_update'[2] \in {"Paused", "Stopped"})
    ]_vars

\* Player A has stopped or paused, player B plays on, no timer was created.
C4_Witness ==
  /\ last_update[2] \in {"Paused", "Stopped"}
  /\ last_update[1] \notin active_players
  /\ active_players # {}
  /\ upc = "idle"
  /\ state = "ACTIVE"
  /\ timers = <<>>

\* C5: single player, state Paused with the long timer pending: a Stopped
\* update cancels it and arms one short timer, and that short timer is the
\* only timer whose deactivation can still run.
C5_PauseThenStop ==
  [][(/\ variant = "async"
      /\ \A q \in Players \ {1} : last_status[q] = "None"
      /\ IsUpdate(1, "Stopped")
      /\ state = "PAUSED"
      /\ timer \in Armed(timers)
      /\ timers[timer].kind = "long")
     => (/\ timers'[timer].task = "cancelled"
         /\ Len(timers') = Len(timers) + 1
         /\ timer' = Len(timers')
         /\ timers'[timer'].kind = "short"
         /\ Armed(timers') \cup InCallback(timers') = {timer'})]_vars

\* C6: a Stopped update for p right after a Stopped update for p arms no
\* timer, cancels no timer and calls deactivate() no further time.
C6_StoppedIdempotent ==
  [][(/\ variant = "async"
      /\ \E p \in Players : last_update = <<p, "Stopped">> /\ IsUpdate(p, "Stopped"))
     => (timers' = timers /\ timer' = timer /\ nDeactivate' = nDeactivate)]_vars

\* C7: activate() is called only by a Playing update that finds the state
\* IDLE; a Playing update that finds ACTIVE or PAUSED does not call it.
C7_ActivateOnlyFromIdle ==
  [][/\ nActivate' # nActivate
          => (state = "IDLE" /\ \E p \in Players : IsUpdate(p, "Playing"))
     /\ \A p \in Players :
          (IsUpdate(p, "Playing") /\ state \in {"ACTIVE", "PAUSED"})
          => (nActivate' = nActivate /\ activating' = activating
              /\ upc' # "activate")
    ]_vars

\* A second player started and the first resumed from pause, with the one
\* activate() call of the first Playing update.
C7_Witness ==
  /\ nActivate = 1
  /\ active_players = Players
  /\ state = "ACTIVE"
  /\ nEvents >= 3
  /\ upc = "idle" /\ activating = 0

\* C8: with every update task finished and no timer fired yet, the state, the
\* active set, the pending timer and the activate() calls are those of
\* the updates processed one at a time in delivery order.
C8_SameAsSequential ==
  (/\ variant = "async"
   /\ activating = 0
   /\ nDeactivate = 0)
  => (/\ state = ref.state
      /\ active_players = ref.active
      /\ nActivate = ref.nActivate
      /\ ref.timer = (IF timer # 0 /\ timer \in Armed(timers)
                      THEN timers[timer].kind ELSE "none"))

\* C9: at most one activate() and at most one deactivate() are in progress.
C9_OneInFlight ==
  variant = "async" =>
     (activating <= 1 /\ Cardinality(InCallback(timers)) <= 1)

\* C10: in the threaded controller a _deactivate callback that a Playing
\* update overtook has no effect: once switched on, with no update and no
\* callback under way, the state is not IDLE while a player is in the active
\* set.
C10_StaleCallbackHasNoEffect ==
  (/\ variant = "ir"
   /\ nActivate > 0
   /\ upc = "idle"
   /\ \A t \in DOMAIN timers : timers[t].task \in {"sleeping", "done", "cancelled"})
  => ~(state = "IDLE" /\ active_players # {})

\* C11: while a deactivate() started by a fired timer is still running
\* (its task is suspended inside the external coroutine), no update creates
\* a new timer.
C11_NoArmDuringDeactivate ==
  [][(variant = "async" /\ InCallback(timers) # {}) => ~Arms]_vars

\* C12: a player is in the active set exactly when the last status delivered
\* for it is Playing, in every state of every interleaving; a step that
\* delivers no update (a timer firing, a deactivation, the end of an
\* activation) leaves the active set as it is.
C12_ActiveSetIsLastPlaying ==
  /\ [](active_players = playing)
  /\ [][nEvents' = nEvents => active_players' = active_players]_vars

\* A timer has fired and its deactivation has completed; later one player
\* has paused or stopped while another one plays on.
C12_Witness ==
  /\ \E t \in DOMAIN timers : timers[t].task = "done"
  /\ last_update[2] \in {"Paused", "Stopped"}
  /\ last_update[1] \notin active_players
  /\ active_players # {}
  /\ upc = "idle"

\* C13: whenever the state is IDLE, no timer is pending and the active set is
\* empty, also while an update task is suspended inside activate().
C13_IdleMeansNothingPending ==
  (variant = "async" /\ state = "IDLE")
  => (Armed(timers) = {} /\ active_players = {})

\* C14: whenever the state is PAUSED, the active set is empty and the timer
\* the controller holds is the long timer, pending (or, once it has fired,
\* running its callback); the state is not PAUSED with a short timer.
C14_PausedMeansLongTimer ==
  (variant = "async" /\ state = "PAUSED")
  => (/\ active_players = {}
      /\ timer # 0
      /\ timers[timer].kind = "long"
      /\ timers[timer].task \in {"sleeping", "callback"})

\* C15: the state is ACTIVE exactly when a player is in the active set or an
\* activation is under way or has just completed; the state is not ACTIVE
\* with an empty active set and a pending timer.
C15_ActiveIffPlaying ==
  variant = "async" =>
    /\ (active_players # {} \/ activating > 0) => state = "ACTIVE"
    /\ (state = "ACTIVE" /\ active_players = {}) => Armed(timers) = {}

\* C16: a Paused update processed while the state is IDLE arms no timer and
\* leaves the state IDLE (so no deactivate() call results from it).
C16_PausedInIdleIsNoOp ==
  [][(state = "IDLE" /\ \E p \in Players : IsUpdate(p, "Paused"))
     => (/\ timers' = timers /\ timer' = timer
         /\ state' = "IDLE" /\ upc' = "idle")]_vars

\* C17: remove_player(x) for a player x that is not in the active set changes
\* neither the state, nor the active set, nor the timer the controller holds,
\* nor any timer object.
C17_RemoveUnknownIsNoOp ==
  [][(/\ variant = "async"
      /\ \E x \in Players : x \notin active_players /\ IsRemove(x))
     => (/\ state' = state /\ active_players' = active_players
         /\ timer' = timer /\ timers' = timers)]_vars

\* C18: remove_player(p) does what update(p, Stopped) does from the same
\* state: a step that delivers remove_player(p) is, but for the record of the
\* method it came in through, a step of update(p, "Stopped"), with the same
\* state, active set, timer objects, position and device calls after it.
C18_RemoveIsStopped ==
  [][\A p \in Players :
       IsRemove(p) =>
         CASE variant = "async" -> update_async(p, "Stopped")
           [] variant = "kasa" -> kasa_update_task(p, "Stopped")
           [] variant = "ir" -> ir_update_Stopped(p)]_vars

\* The removal of the last playing player has armed the short timer.
C18_Witness ==
  /\ via = "remove_player"
  /\ nActivate > 0
  /\ state = "ACTIVE"
  /\ active_players = {}
  /\ timer # 0
  /\ timers[timer].kind = "short"
  /\ timers[timer].task = "sleeping"

C20_TimeoutsAsConfigured ==
  \A t \in DOMAIN timers :
    timers[t].timeout = IF timers[t].kind = "long" THEN pause_timeout
                        ELSE stop_timeout

----------------------------------------------------------------------------
\* C21: when the external activate() raises during a Playing update received
\* in IDLE, the controller still does its bookkeeping: after the step in
\* which the call fails the state is ACTIVE and the controller holds no timer
\* (it is not left IDLE with the player in the active set).
C21_FailedActivateStillActive ==
  [][(nFailed' = nFailed + 1 /\ nDeactivate' = nDeactivate
      /\ (activating' < activating \/ upc = "activate"))
     => (state' = "ACTIVE" /\ timer' = 0)]_vars

\* C22: after the external deactivate() has raised inside a fired timer's
\* callback, with nothing else under way, the next Stopped update that leaves
\* the active set empty arms a new timer, and so does the Stopped update that
\* follows the next Playing update: the controller is not left non-IDLE with
\* an empty active set and no timer that can still fire.
C22_RecoversFromFailedDeactivate ==
  [][\A p \in Players :
       (/\ variant = "async"
        /\ \E t \in DOMAIN timers : timers[t].task = "failed"
        /\ deactSinceUpdate > 0 \/ last_update[2] = "Playing"
        /\ Quiescent
        /\ state # "IDLE"
        /\ IsUpdate(p, "Stopped")
        /\ active_players' = {})
       => (Arms /\ Armed(timers') = {timer'})]_vars

\* C23: AsyncTimer.  A timer cancelled before its delay elapsed never starts
\* its callback; cancel() on a timer that has fired, or has been cancelled
\* already, changes nothing: a callback that has started runs on until it
\* returns, and a finished timer stays finished.
C23_CancelAfterFiringIsNoOp ==
  [][(variant # "ir") =>
       (\A t \in DOMAIN timers :
          (/\ (timers[t].task = "cancelled" => timers'[t].task = "cancelled")
           /\ (timers[t].task = "callback"
                 => timers'[t].task \in {"callback", "done"})
           /\ (timers[t].task = "done" => timers'[t].task = "done")))]_vars

\* C24: a pending timer fires while no update is being processed and no
\* update arrives before its callback ends: when the callback ends (it has
\* called deactivate() once, on firing) the state is IDLE, the controller
\* holds no timer and no timer is pending.
C24_QuietFiringDeactivates ==
  [][\A t \in DOMAIN timers :
       (t \in Running(timers) /\ timers'[t].task = "done")
       => (state' = "IDLE" /\ timer' = 0 /\ Armed(timers') = {})]_vars

\* C25: a single player, updates one at a time: Playing, Paused, Playing,
\* Stopped, then the timer fires.  After the first update activate() has been
\* called once and the state is ACTIVE; after the second the long timer is
\* armed and the state is PAUSED; after the third that timer is cancelled, the
\* state is ACTIVE and activate() has not been called again; after the fourth
\* the short timer is armed; after the firing deactivate() has been called
\* once and the state is IDLE.
C25_PlayPauseResumeStop ==
  /\ (nEvents = 1 /\ Settled /\ nDeactivate = 0)
     => (nActivate = 1 /\ state = "ACTIVE" /\ timers = <<>>)
  /\ (nEvents = 2 /\ Settled /\ nDeactivate = 0)
     => (/\ state = "PAUSED" /\ Len(timers) = 1 /\ timer = 1
         /\ timers[1].kind = "long" /\ timers[1].task = "sleeping")
  /\ (nEvents = 3 /\ Settled /\ nDeactivate = 0)
     => (/\ state = "ACTIVE" /\ Len(timers) = 1 /\ timer = 0
         /\ timers[1].task = "cancelled" /\ nActivate = 1)
  /\ (nEvents = 4 /\ Settled /\ nDeactivate = 0)
     => (/\ state = "ACTIVE" /\ Len(timers) = 2 /\ timer = 2
         /\ timers[2].kind = "short" /\ timers[2].task = "sleeping"
         /\ nActivate = 1)
  /\ (/\ nEvents = 4 /\ Settled /\ Len(timers) = 2
      /\ timers[1].task = "cancelled" /\ timers[2].task = "done")
     => (nDeactivate = 1 /\ state = "IDLE" /\ timer = 0 /\ nActivate = 1)

\* The scenario has run to its end: the long timer was cancelled by the
\* resume, the short timer has fired and its callback has returned.
C25_Witness ==
  /\ nEvents = 4 /\ Settled
  /\ last_update[2] = "Stopped"
  /\ Len(timers) = 2
  /\ timers[1].kind = "long" /\ timers[1].task = "cancelled"
  /\ timers[2].kind = "short" /\ timers[2].task = "done"
  /\ nActivate = 1 /\ nDeactivate = 1
  /\ state = "IDLE"

\* The option's value starts with a minus sign (and is not "-0").
Negative(s) == s # <<>> /\ Head(s) = "-" /\ s # <<"-", "0">>

Option(v, kind) ==
  <<"stop_timeout", "pause_timeout">>[CHOOSE i \in 1..2 : init_params(v)[i] = kind]

C27_PausedAssertHolds ==
  [][\A p \in Players :
       (variant # "async" /\ IsUpdate(p, "Paused"))
       => raised' # "AssertionError"]_vars

\* C28: whenever a Stopped update finds the state PAUSED with the active set
\* empty, the controller holds a timer, under every interleaving of the
\* updates with the timer callbacks: `assert(self.timer)` does not fail.  In
\* the asyncio scripts the update reads the state and the timer in one step;
\* in the threaded script the assertion is a step of its own.
C28_StopAssertHolds ==
  /\ (/\ variant # "ir"
      /\ state = "PAUSED"
      /\ \E p \in Players : active_players \ {p} = {})
     => timer # 0
  /\ (variant = "ir" /\ upc = "stop_assert") => timer # 0

\* C29: whenever no update task and no timer callback is in progress, a
\* state other than IDLE with an empty active set comes with a pending timer,
\* also after a Paused or Stopped update for a player was processed while
\* that player's Playing update was suspended inside activate().
C29_NotIdleEmptyMeansTimer ==
  (/\ variant = "async"
   /\ activating = 0
   /\ InCallback(timers) = {}
   /\ state # "IDLE"
   /\ active_players = {})
  => Armed(timers) # {}

\* C30: the calls of the external activate() and deactivate() alternate,
\* starting with activate(): at any time the number of deactivate() calls is
\* the number of activate() calls or one less.
C30_CallsAlternate ==
  nDeactivate <= nActivate /\ nActivate <= nDeactivate + 1

\* C31: a deactivate() that a cancel() cut short is followed by a complete
\* activate() before the controller comes to rest with a player in the active
\* set and the state ACTIVE: once no task is suspended and no timer can fire,
\* the outputs are not left partly switched off under a playing player (the
\* case: a Playing update processed while a fired timer's task is suspended
\* inside deactivate()).
C31_NoHalfDeactivationUnderPlayer ==
  (/\ variant = "async"
   /\ Quiescent
   /\ state = "ACTIVE"
   /\ active_players # {})
  => ~interrupted

\* C32: when the button is held and the event loop changes the active set
\* only by processing the Stopped updates button_held hands it, button_held's
\* iteration over the set does not fail, and when it ends a Stopped update
\* has been handed over for every player that was in the set when the hold
\* began.
C32_HoldRemovesEveryPlayer ==
  [][(held.pc = "iterating" /\ active_players = held.begun \ held.sent)
     => (/\ held'.pc # "RuntimeError"
         /\ held'.pc = "done" => held.begun \subseteq held.yielded)]_vars

====
